---- MODULE Spec2Model ----
(***************************************************************************)
(* Camera CAPTCHA (abdullahmubin/puzzle): the watermark generator          *)
(* (utils/createWatermarks.js), the selection scoring and the attempt /    *)
(* block session of App.jsx, and the timing heuristics of                  *)
(* validateHumanInteraction.                                               *)
(*                                                                         *)
(* Seven specifications share this module:                                 *)
(*   Spec      - the App session: handleCapture, validatePuzzle,           *)
(*               resetChallenge, resetChallengeCompletely;                 *)
(*   GenSpec   - createWatermarks run statement by statement for every     *)
(*               grid of at most MaxCells cells and every random draw;     *)
(*   ScoreSpec - the scoring block of validatePuzzle applied to every      *)
(*               selection / correct set of a ScoreCells-cell universe;    *)
(*   TimingSpec - validateHumanInteraction applied to every timing record  *)
(*               of at most MaxClicks clicks over a set of critical times; *)
(*   GridSpec  - one mounted PuzzleGrid: handleClick on every position of  *)
(*               the canvas, and the Validate button;                      *)
(*   RetrySpec - PuzzleGrid mounted once per attempt, one attempt after    *)
(*               the other;                                                *)
(*   CameraSpec - one CameraCapture instance: startCamera across its two   *)
(*               awaits, the animation loop, captureFrame and the unmount. *)
(* The variables of the specifications that are not running stay at their  *)
(* idle values.                                                            *)
(***************************************************************************)
EXTENDS Integers, Naturals, Sequences, FiniteSets, TLC

VARIABLES
    \* ---- App.jsx component state (useState) ----
    screen,         \* "camera" | "puzzle" | "result"
    captured,       \* Null or [image, region, gridRows, gridCols]
    wm,             \* Null or [watermarks, targetShape, targetColor]
    result,         \* "null" | "true" | "false"
    cameraKey,      \* remount key of CameraCapture
    attemptCount,   \* number of failed attempts so far
    isBlocked,      \* TRUE once MAX_ATTEMPTS is reached
    \* ---- history of the session (not program state) ----
    event,          \* the handler that ran last
    last,           \* arguments and path of the last validatePuzzle call
    scoreFailures,  \* score failures since the last success or full reset
    \* ---- createWatermarks, statement by statement ----
    genPc,          \* "idle" | "shuffle" | "assign" | "target" | "done"
    genRows, genCols,
    indices,        \* the array being shuffled (position k+1 holds indices[k])
    genI,           \* loop variable i of the Fisher-Yates loop
    watermarks,     \* the watermarks array
    target,         \* [targetShape, targetColor] once picked
    \* ---- scoring block of validatePuzzle on its own ----
    scPc,           \* "idle" | "ready" | "done"
    scSelected, scCorrect,
    scValid,        \* isValid as computed, for each value of attemptCount
    scCount,        \* attemptCount as set after scoring, for each value before
    scBlocked,      \* isBlocked as set after scoring, for each attemptCount
    \* ---- validateHumanInteraction on its own ----
    tmPc,           \* "idle" | "ready" | "done"
    tmData,         \* the timing record
    tmResult,       \* the value returned
    \* ---- PuzzleGrid.jsx, one mounted component ----
    pgPc,           \* "idle" | "mounted" | "validated"
    pgRegion,       \* the region prop: [x, y, size]
    pgSelected,     \* the selected state (a Set of cell indices)
    pgLog,          \* clickTimestampsRef.current
    pgCall,         \* Null or the arguments onValidate was called with
    pgStart,        \* puzzleStartTimeRef.current
    pgTimes,        \* the timestamp fields of the entries of pgLog
    pgNow,          \* performance.now(), as seen by the component
    \* ---- history of the component (not program state) ----
    pgClick,        \* Null or the canvas position [cx, cy] of the last click
    pgAccepted,     \* clicks that passed the region check since the mount
    \* ---- CameraCapture, one instance ----
    camPc,          \* "idle" | "mounted" | "unmounted"
    camRunning,     \* the running state
    camRequest,     \* startCamera: "none" | "pending" | "playing" | "done" | "failed"
    camRef,         \* videoRef.current and overlayRef.current are attached
    camSrc,         \* the video element's srcObject holds the stream
    camStream,      \* the stream of getUserMedia: "none" | "live" | "stopped"
    camReady,       \* videoWidth and videoHeight are both non-zero
    camAnim,        \* animationRef.current holds a frame id
    camScheduled,   \* a requestAnimationFrame callback is waiting to run
    camSquare,      \* squareRef.current: [x, y]
    camArg,         \* Null or the argument onCaptured was called with
    \* ---- history of the instance (not program state) ----
    camCalls,       \* number of onCaptured calls
    camTrace,       \* what the last captureFrame did, in order
    camEvent        \* the function that ran last

appVars   == <<screen, captured, wm, result, cameraKey, attemptCount, isBlocked,
               event, last, scoreFailures>>
genVars   == <<genPc, genRows, genCols, indices, genI, watermarks, target>>
scoreVars == <<scPc, scSelected, scCorrect, scValid, scCount, scBlocked>>
timeVars  == <<tmPc, tmData, tmResult>>
pgVars    == <<pgPc, pgRegion, pgSelected, pgLog, pgCall, pgStart, pgTimes, pgNow,
               pgClick, pgAccepted>>
camVars   == <<camPc, camRunning, camRequest, camRef, camSrc, camStream, camReady,
               camAnim, camScheduled, camSquare, camArg, camCalls, camTrace,
               camEvent>>
vars      == <<appVars, genVars, scoreVars, timeVars, pgVars, camVars>>

(***************************************************************************)
(* Bounds of the model                                                     *)
(***************************************************************************)
\* GenSpec runs createWatermarks for every rows, cols with 2 <= rows*cols <= MaxCells
MaxCells == 4
\* ScoreSpec scores selections over the cells 0..ScoreCells-1
ScoreCells == 10
\* cameraKey is only ever compared with its previous value: it is kept modulo this
CameraKeyMod == 2
\* The session runs on a SessionGrid[1] x SessionGrid[2] grid (the code passes
\* gridRows = gridCols = 4 to a generator that takes any rows, cols)
SessionGrid == <<2, 2>>

(***************************************************************************)
(* Program constants                                                       *)
(***************************************************************************)
MAX_ATTEMPTS == 3
shapes == <<"triangle", "square", "circle">>
colors == <<"red", "green", "blue">>
Null == [null |-> TRUE]

\* Math.floor(Math.random() * n): any of 0 .. n-1
RandomIndex(n) == 0 .. (n - 1)

(***************************************************************************)
(* createWatermarks                                                        *)
(***************************************************************************)
\* [...Array(total).keys()]
InitialIndices(total) == [k \in 1..total |-> k - 1]

\* indices[i] = indices[j] alone: the element at i is lost
SwapOverwrite(ind, i, j) ==
    [k \in 1..Len(ind) |-> IF k = i + 1 THEN ind[j + 1] ELSE ind[k]]

\* [indices[i], indices[j]] = [indices[j], indices[i]]   (i, j zero-based)
Swap(ind, i, j) ==
    [k \in 1..Len(ind) |-> IF k = i + 1 THEN ind[j + 1]
                           ELSE IF k = j + 1 THEN ind[i + 1]
                           ELSE ind[k]]

\* for (let i = indices.length - 1; i > 0; i--) { j = random in [0, i]; swap }
\* : the set of arrays the loop can end with, started at loop index i
RECURSIVE FisherYates(_, _)
FisherYates(ind, i) ==
    IF i > 0
    THEN UNION { FisherYates(Swap(ind, i, j), i - 1) : j \in RandomIndex(i + 1) }
    ELSE {ind}

\* half = Math.floor(total / 2)
Half(total) == total \div 2

\* indices.slice(0, half)
Chosen(ind, half) == SubSeq(ind, 1, half)

\* chosen.map(idx => ({idx, shape: shapes[random], color: colors[random]}))
\* : every array the map can return
AssignShapes(chosen) ==
    { [n \in 1..Len(chosen) |->
          [idx |-> chosen[n], shape |-> shapes[d[n][1] + 1], color |-> colors[d[n][2] + 1]]]
      : d \in [1..Len(chosen) -> RandomIndex(Len(shapes)) \X RandomIndex(Len(colors))] }

\* A target sampled from the shape and color universes, independently of the
\* watermarks (the earlier draft of the file, lines 92-93)
PickTargetIndependent(wms) ==
    { [targetShape |-> shapes[a + 1], targetColor |-> colors[b + 1]]
      : a \in RandomIndex(Len(shapes)), b \in RandomIndex(Len(colors)) }

\* randomWatermark = watermarks[random]; targetShape/-Color = its shape/color
PickTarget(wms) ==
    { [targetShape |-> wms[k + 1].shape, targetColor |-> wms[k + 1].color]
      : k \in RandomIndex(Len(wms)) }

\* Every value createWatermarks(rows, cols) can return
createWatermarks(rows, cols) ==
    LET total == rows * cols
        half  == Half(total)
    IN  UNION { UNION { { [watermarks  |-> wms,
                           targetShape |-> t.targetShape,
                           targetColor |-> t.targetColor] : t \in PickTarget(wms) }
                        : wms \in AssignShapes(Chosen(ind, half)) }
                : ind \in FisherYates(InitialIndices(total), total - 1) }

(***************************************************************************)
(* GenSpec: createWatermarks statement by statement                        *)
(***************************************************************************)
GenIdle ==
    /\ genPc = "idle" /\ genRows = 0 /\ genCols = 0
    /\ indices = <<>> /\ genI = 0 /\ watermarks = <<>> /\ target = Null

GenStart ==
    /\ genRows \in 1..MaxCells
    /\ genCols \in 1..MaxCells
    /\ genRows * genCols >= 2
    /\ genRows * genCols <= MaxCells
    /\ genPc = "shuffle"
    /\ indices = InitialIndices(genRows * genCols)
    /\ genI = genRows * genCols - 1
    /\ watermarks = <<>>
    /\ target = Null

\* one iteration of the Fisher-Yates loop
ShuffleStep ==
    /\ genPc = "shuffle"
    /\ genI > 0
    /\ \E j \in RandomIndex(genI + 1) : indices' = Swap(indices, genI, j)
    /\ genI' = genI - 1
    /\ UNCHANGED <<genPc, genRows, genCols, watermarks, target>>
    /\ UNCHANGED <<appVars, scoreVars, timeVars, pgVars, camVars>>

\* loop exit, slice and map
AssignStep ==
    /\ genPc = "shuffle"
    /\ ~(genI > 0)
    /\ watermarks' \in AssignShapes(Chosen(indices, Half(genRows * genCols)))
    /\ genPc' = "target"
    /\ UNCHANGED <<genRows, genCols, indices, genI, target>>
    /\ UNCHANGED <<appVars, scoreVars, timeVars, pgVars, camVars>>

\* pick the target and return
TargetStep ==
    /\ genPc = "target"
    /\ target' \in PickTarget(watermarks)
    /\ genPc' = "done"
    /\ UNCHANGED <<genRows, genCols, indices, genI, watermarks>>
    /\ UNCHANGED <<appVars, scoreVars, timeVars, pgVars, camVars>>


GenNext == ShuffleStep \/ AssignStep \/ TargetStep

(***************************************************************************)
(* validateHumanInteraction                                                *)
(*                                                                         *)
(* performance.now() is fractional: a time is a whole number of ticks,     *)
(* TicksPerMs ticks to the millisecond.                                    *)
(***************************************************************************)
TicksPerMs == 2

MIN_TIME_SECONDS == 2
MAX_TIME_SECONDS == 300
\* MIN_CV = 0.15 = MIN_CV_NUM / MIN_CV_DEN
MIN_CV_NUM == 3
MIN_CV_DEN == 20
MIN_CLICK_INTERVAL_MS == 80
MIN_THINKING_TIME_MS == 500

RECURSIVE SumSeq(_)
SumSeq(s) == IF s = <<>> THEN 0 ELSE Head(s) + SumSeq(Tail(s))

\* intervals[i-1] = clickTimestamps[i].timestamp - clickTimestamps[i-1].timestamp
Intervals(clickTimestamps) ==
    [i \in 1..(Len(clickTimestamps) - 1) |->
        clickTimestamps[i + 1].timestamp - clickTimestamps[i].timestamp]

\* Math.round of a time of t ticks, in milliseconds: floor(t / TicksPerMs + 1/2)
Round(t) == (2 * t + TicksPerMs) \div (2 * TicksPerMs)

\* stdDev / avgInterval < MIN_CV, for n intervals of sum S and sum of squares Q:
\* variance = (n*Q - S*S) / n^2 and avg = S / n, so with S > 0 the test is
\* (n*Q - S*S) * DEN^2 < NUM^2 * S*S. With S = 0 the quotient is 0/0 = NaN
\* and the comparison is false.
TooConsistent(intervals) ==
    LET n == Len(intervals)
        S == SumSeq(intervals)
        Q == SumSeq([i \in 1..n |-> intervals[i] * intervals[i]])
    IN  /\ S > 0
        /\ (n * Q - S * S) <= (MIN_CV_NUM * MIN_CV_NUM * S * S - 1) \div (MIN_CV_DEN * MIN_CV_DEN)

\* totalTime / 1000 <= MIN_TIME_SECONDS: the floor itself rejected
TooFastTotalInclusive(totalTime) == totalTime <= MIN_TIME_SECONDS * 1000 * TicksPerMs

\* totalTime / 1000 < MIN_TIME_SECONDS
TooFastTotal(totalTime) == totalTime < MIN_TIME_SECONDS * 1000 * TicksPerMs

\* totalTime / 1000 > MAX_TIME_SECONDS
TooSlowTotal(totalTime) == totalTime > MAX_TIME_SECONDS * 1000 * TicksPerMs

\* the pattern checks running from two, or only from four, intervals on
EnoughIntervalsTwo(intervals) == Len(intervals) >= 2
EnoughIntervalsFour(intervals) == Len(intervals) >= 4

\* intervals.length >= 3
EnoughIntervals(intervals) == Len(intervals) >= 3

\* only the last interval examined
TooFastClicksLastOnly(intervals) ==
    IF Len(intervals) > 0 /\ intervals[Len(intervals)] < MIN_CLICK_INTERVAL_MS * TicksPerMs
    THEN 1 ELSE 0

\* intervals.filter(interval => interval < MIN_CLICK_INTERVAL_MS).length
TooFastClicks(intervals) ==
    Cardinality({i \in 1..Len(intervals) : intervals[i] < MIN_CLICK_INTERVAL_MS * TicksPerMs})

\* new Set(intervals.map(i => Math.round(i)))
UniqueIntervals(intervals) == {Round(intervals[i]) : i \in 1..Len(intervals)}

\* the time from the last click to the validation
TimeToValidationLastClick(clickTimestamps, validationTime) ==
    validationTime - clickTimestamps[Len(clickTimestamps)].timestamp

\* validationTime - clickTimestamps[0].timestamp
TimeToValidation(clickTimestamps, validationTime) ==
    validationTime - clickTimestamps[1].timestamp

Reason(check, value) == [check |-> check, value |-> value]

\* the checks stopping at the first one that fires
PushIfFirst(reasons, fires, reason) ==
    IF fires /\ reasons = <<>> THEN Append(reasons, reason) ELSE reasons

\* reasons.push(...) when the check fires
PushIf(reasons, fires, reason) == IF fires THEN Append(reasons, reason) ELSE reasons

\* the two warnings clearing isHuman as well
IsHumanStrict(tooFast, tooSlow, consistent, tooFastClicks, identical, noClicks, noThinking) ==
    ~(tooFast \/ tooSlow \/ consistent \/ tooFastClicks > 0 \/ identical \/ noClicks
        \/ noThinking)

\* let isHuman = true, and isHuman = false in the checks that are not warnings
IsHuman(tooFast, tooSlow, consistent, tooFastClicks, identical, noClicks, noThinking) ==
    ~(tooFast \/ consistent \/ tooFastClicks > 0 \/ identical \/ noThinking)

\* a missing record let through
NoTimingDataFailOpen == [isHuman |-> TRUE, reasons |-> <<Reason("No timing data provided", 0)>>]

\* if (!timingData) return { isHuman: false, reasons: ['No timing data provided'] }
NoTimingData == [isHuman |-> FALSE, reasons |-> <<Reason("No timing data provided", 0)>>]

validateHumanInteraction(timingData) ==
    IF timingData = Null
    THEN NoTimingData
    ELSE
    LET puzzleStartTime == timingData.puzzleStartTime
        clickTimestamps == timingData.clickTimestamps
        validationTime  == timingData.validationTime
        totalTime == validationTime - puzzleStartTime
        \* Check 1 and Check 2, on totalTime / 1000
        tooFast == TooFastTotal(totalTime)
        tooSlow == TooSlowTotal(totalTime)
        \* Check 3
        analysed  == Len(clickTimestamps) > 1
        intervals == Intervals(clickTimestamps)
        consistent == analysed /\ TooConsistent(intervals) /\ EnoughIntervals(intervals)
        tooFastClicks == IF analysed THEN TooFastClicks(intervals) ELSE 0
        identical == analysed /\ Cardinality(UniqueIntervals(intervals)) = 1
                              /\ EnoughIntervals(intervals)
        noClicks == ~analysed /\ Len(clickTimestamps) = 0
        \* Check 4
        timeToValidation == IF Len(clickTimestamps) > 0
                            THEN TimeToValidation(clickTimestamps, validationTime)
                            ELSE 0
        noThinking == Len(clickTimestamps) > 0
                      /\ timeToValidation < MIN_THINKING_TIME_MS * TicksPerMs
        r1 == PushIf(<<>>, tooFast, Reason("Too fast", totalTime))
        r2 == PushIf(r1, tooSlow, Reason("Warning: Very long completion time", totalTime))
        r3 == PushIf(r2, consistent,
                     Reason("Suspicious click pattern: Too consistent intervals", 0))
        r4 == PushIf(r3, tooFastClicks > 0,
                     Reason("Suspicious: click(s) with interval < 80ms", tooFastClicks))
        r5 == PushIf(r4, identical,
                     Reason("Suspicious: All click intervals are identical",
                            IF analysed THEN intervals[1] ELSE 0))
        r6 == PushIf(r5, noClicks, Reason("Warning: No click interactions recorded", 0))
        r7 == PushIf(r6, noThinking, Reason("Too fast validation", timeToValidation))
    IN  [isHuman |-> IsHuman(tooFast, tooSlow, consistent, tooFastClicks, identical,
                             noClicks, noThinking),
         reasons |-> r7]

(***************************************************************************)
(* TimingSpec: validateHumanInteraction on every record of the universe    *)
(***************************************************************************)
\* a record holds at most MaxClicks clicks
MaxClicks == 4

Ms(t) == t * TicksPerMs

\* performance.now() when the puzzle was mounted
StartTime == Ms(1000)

\* validationTime - puzzleStartTime: below, one tick below, at and above the
\* 2 s floor; at and one tick above the 300 s ceiling
TotalTimes == { Ms(900), Ms(2000) - 1, Ms(2000), Ms(3500), Ms(300000), Ms(300000) + 1 }

\* clickTimestamps[0].timestamp - puzzleStartTime: with a total of 2000 ms the
\* thinking time is 1900, 500 and 499.5 ms; with 3500 ms it is also 100 ms
FirstClicks == { Ms(100), Ms(1500), Ms(1500) + 1, Ms(3400) }

\* the time between two clicks: none, one tick below and at the 80 ms minimum,
\* whole and fractional numbers of milliseconds
Gaps == { 0, Ms(80) - 1, Ms(80), Ms(250), Ms(250) + 1, Ms(400) }

\* the clickTimestamps array of a first click and the gaps that follow it
Clicks(first, gaps) ==
    [i \in 1..(Len(gaps) + 1) |->
        [timestamp |-> StartTime + first + SumSeq(SubSeq(gaps, 1, i - 1)),
         cellIndex |-> 0, action |-> "select"]]

\* { puzzleStartTime, clickTimestamps, validationTime } as PuzzleGrid builds it
TimingRecord(clicks, total) ==
    [puzzleStartTime |-> StartTime, clickTimestamps |-> clicks,
     validationTime |-> StartTime + total]

NoVerdict == [isHuman |-> FALSE, reasons |-> <<>>]

TimingIdle == tmPc = "idle" /\ tmData = Null /\ tmResult = NoVerdict

\* every record: none at all, one without clicks, or one whose clicks lie
\* between the mount and the validation, in order
TimingStart ==
    /\ tmPc = "ready"
    /\ tmResult = NoVerdict
    /\ \/ tmData = Null
       \/ \E total \in TotalTimes : tmData = TimingRecord(<<>>, total)
       \/ \E first \in FirstClicks, total \in TotalTimes, n \in 0..(MaxClicks - 1) :
             \E gaps \in [1..n -> Gaps] :
                /\ first + SumSeq(gaps) <= total
                /\ tmData = TimingRecord(Clicks(first, gaps), total)

\* const humanValidation = validateHumanInteraction(timingData)
Validate ==
    /\ tmPc = "ready"
    /\ tmResult' = validateHumanInteraction(tmData)
    /\ tmPc' = "done"
    /\ UNCHANGED tmData
    /\ UNCHANGED <<appVars, genVars, scoreVars, pgVars, camVars>>

TimingNext == Validate

(***************************************************************************)
(* Scoring block of validatePuzzle                                         *)
(***************************************************************************)
\* the table with the third row as lenient as the first
TOLERANCE_CONFIG_LooseThird ==
    (1 :> [allowedMistakes |-> 2]) @@
    (2 :> [allowedMistakes |-> 1]) @@
    (3 :> [allowedMistakes |-> 2])

TOLERANCE_CONFIG ==
    (1 :> [allowedMistakes |-> 2]) @@
    (2 :> [allowedMistakes |-> 1]) @@
    (3 :> [allowedMistakes |-> 0])

\* TOLERANCE_CONFIG[currentAttempt] || TOLERANCE_CONFIG[3]
Tolerance(currentAttempt) ==
    IF currentAttempt \in DOMAIN TOLERANCE_CONFIG
    THEN TOLERANCE_CONFIG[currentAttempt]
    ELSE TOLERANCE_CONFIG[3]

\* wm.watermarks.filter(shape and color match the target).map(w => w.idx), as a Set
CorrectSet(w) ==
    { w.watermarks[k].idx : k \in { n \in 1..Len(w.watermarks) :
          /\ w.watermarks[n].shape = w.targetShape
          /\ w.watermarks[n].color = w.targetColor } }

correctSelected(userSet, correctSet)   == Cardinality(userSet \cap correctSet)
incorrectSelected(userSet, correctSet) == Cardinality(userSet) - correctSelected(userSet, correctSet)
missedCorrect(userSet, correctSet)     == Cardinality(correctSet) - correctSelected(userSet, correctSet)
totalMistakes(userSet, correctSet) ==
    incorrectSelected(userSet, correctSet) + missedCorrect(userSet, correctSet)

\* the accuracy requirement left out
AccuracyNotChecked(userSet, correctSet, tenths) == TRUE

\* accuracy >= tenths / 10, with accuracy = correctSelected / correctSet.size
\* (0 / 0 is NaN, and NaN >= x is false)
AccuracyAtLeast(userSet, correctSet, tenths) ==
    /\ Cardinality(correctSet) > 0
    /\ 10 * correctSelected(userSet, correctSet) >= tenths * Cardinality(correctSet)

\* isValid with the correctSet.size > 0 condition left out
isValidNoGuard(userSet, correctSet, currentAttempt) ==
    LET allowedMistakes == Tolerance(currentAttempt).allowedMistakes
        mistakes == totalMistakes(userSet, correctSet)
    IN  IF mistakes <= allowedMistakes
        THEN IF currentAttempt = 1 /\ allowedMistakes > 0
             THEN AccuracyAtLeast(userSet, correctSet, 8) /\ mistakes <= allowedMistakes
             ELSE IF allowedMistakes = 0
             THEN /\ Cardinality(correctSet) = Cardinality(userSet)
                  /\ \A i \in correctSet : i \in userSet
             ELSE AccuracyAtLeast(userSet, correctSet, 9) /\ mistakes <= allowedMistakes
        ELSE FALSE

\* isValid, for the attempt numbered currentAttempt = attemptCount + 1
isValid(userSet, correctSet, currentAttempt) ==
    LET allowedMistakes == Tolerance(currentAttempt).allowedMistakes
        mistakes == totalMistakes(userSet, correctSet)
    IN  IF mistakes <= allowedMistakes /\ Cardinality(correctSet) > 0
        THEN IF currentAttempt = 1 /\ allowedMistakes > 0
             THEN AccuracyAtLeast(userSet, correctSet, 8) /\ mistakes <= allowedMistakes
             ELSE IF allowedMistakes = 0
             THEN /\ Cardinality(correctSet) = Cardinality(userSet)
                  /\ \A i \in correctSet : i \in userSet
             ELSE AccuracyAtLeast(userSet, correctSet, 9) /\ mistakes <= allowedMistakes
        ELSE FALSE

\* const currentAttempt = attemptCount + 1
CurrentAttemptStale(count) == count
CurrentAttempt(count) == count + 1

\* setAttemptCount(0) on success, setAttemptCount(attemptCount + 1) on failure
AttemptCountAfterKeep(valid, count) == IF valid THEN count ELSE count + 1
AttemptCountAfter(valid, count) == IF valid THEN 0 ELSE count + 1

\* if (newAttemptCount >= MAX_ATTEMPTS) setIsBlocked(true)
ShouldBlockLate(newAttemptCount) == newAttemptCount > MAX_ATTEMPTS
ShouldBlock(newAttemptCount) == newAttemptCount >= MAX_ATTEMPTS

(***************************************************************************)
(* ScoreSpec: the scoring block on every input of the universe             *)
(***************************************************************************)
ScoreUniverse == 0 .. (ScoreCells - 1)

\* the values attemptCount can hold when the scoring block runs
AttemptCounts == 0 .. MAX_ATTEMPTS
NotScored == [a \in AttemptCounts |-> FALSE]
NotCounted == [a \in AttemptCounts |-> a]

ScoreIdle ==
    /\ scPc = "idle" /\ scSelected = {} /\ scCorrect = {}
    /\ scValid = NotScored /\ scCount = NotCounted /\ scBlocked = NotScored

\* every selection; every size of correct set (its cells are 0 .. k-1: the
\* scoring depends on the two sets only through the sizes of their intersection
\* and differences)
ScoreStart ==
    /\ scPc = "ready"
    /\ scSelected \in SUBSET ScoreUniverse
    /\ scCorrect \in { 0 .. (k - 1) : k \in 0 .. ScoreCells }
    /\ scValid = NotScored /\ scCount = NotCounted /\ scBlocked = NotScored

\* the scoring block, run with each attemptCount (currentAttempt = attemptCount + 1):
\* isValid, then setAttemptCount and setIsBlocked (isBlocked is false on entry)
Score ==
    /\ scPc = "ready"
    /\ scValid' = [a \in AttemptCounts |->
                      isValid(scSelected, scCorrect, CurrentAttempt(a))]
    /\ scCount' = [a \in AttemptCounts |-> AttemptCountAfter(scValid'[a], a)]
    /\ scBlocked' = [a \in AttemptCounts |->
                        ~scValid'[a] /\ ShouldBlock(AttemptCountAfter(FALSE, a))]
    /\ scPc' = "done"
    /\ UNCHANGED <<scSelected, scCorrect>>
    /\ UNCHANGED <<appVars, genVars, timeVars, pgVars, camVars>>

ScoreNext == Score


(***************************************************************************)
(* App session                                                             *)
(***************************************************************************)
gridRows == SessionGrid[1]
gridCols == SessionGrid[2]
GridCells == 0 .. (gridRows * gridCols - 1)

Click(t, cell, action) == [timestamp |-> Ms(t), cellIndex |-> cell, action |-> action]
TimingData(start, clicks, validation) ==
    [puzzleStartTime |-> Ms(start), clickTimestamps |-> clicks, validationTime |-> Ms(validation)]

\* The timing records the session is driven with (times in ms): none; the
\* record of the App tests; 900 ms in total; no click at all; four evenly
\* spaced clicks; validation 200 ms after the first click
SessionTimings ==
    { Null,
      TimingData(1000, <<Click(1500, 0, "select")>>, 3000),
      TimingData(0, <<Click(400, 0, "select")>>, 900),
      TimingData(0, <<>>, 2500),
      TimingData(0, <<Click(500, 0, "select"), Click(750, 1, "select"),
                      Click(1000, 2, "select"), Click(1250, 3, "select")>>, 3000),
      TimingData(0, <<Click(2800, 0, "select")>>, 3000) }

\* History of the last validatePuzzle call: the path it took ("blocked", "gate",
\* "target", "scored"), the tier it scored with (0 when it did not score), the
\* whether it was given a timing record, the verdict of validateHumanInteraction
\* on it, its selection, and attemptCount and scoreFailures as they were when it
\* was called
NoCall == [stage |-> "none", tier |-> 0, timed |-> FALSE, human |-> FALSE, selected |-> {},
           before |-> 0, failuresBefore |-> 0]
Call(stage, tier, timingData, human, selected) ==
    [stage |-> stage, tier |-> tier, timed |-> timingData # Null, human |-> human,
     selected |-> selected,
     before |-> attemptCount, failuresBefore |-> scoreFailures]

AppInit ==
    /\ screen = "camera"
    /\ captured = Null
    /\ wm = Null
    /\ result = "null"
    /\ cameraKey = 0
    /\ attemptCount = 0
    /\ isBlocked = FALSE
    /\ event = "mount"
    /\ last = NoCall
    /\ scoreFailures = 0

AppIdle ==
    /\ screen = "idle" /\ captured = Null /\ wm = Null /\ result = "null"
    /\ cameraKey = 0 /\ attemptCount = 0 /\ isBlocked = FALSE
    /\ event = "none" /\ last = NoCall /\ scoreFailures = 0

\* setCameraKey(prev => prev + 1)
NextCameraKey(prev) == (prev + 1) % CameraKeyMod

\* Attempt {attemptCount + 1} of {MAX_ATTEMPTS} on the failure result
AttemptShown == attemptCount + 1

\* Try Again rendered on every failure result, the blocked one included
TryAgainOfferedWhenBlocked == screen = "result" /\ result # "true"

\* the Try Again button is rendered on the failure result that is not blocked
TryAgainOffered == screen = "result" /\ result # "true" /\ ~isBlocked

\* resetChallenge that also forgets the attempts
resetChallengeForgetful ==
    /\ TryAgainOffered
    /\ screen' = "camera"
    /\ captured' = Null
    /\ wm' = Null
    /\ result' = "null"
    /\ attemptCount' = 0
    /\ cameraKey' = NextCameraKey(cameraKey)
    /\ event' = "resetChallenge"
    /\ last' = NoCall
    /\ UNCHANGED <<isBlocked, scoreFailures>>
    /\ UNCHANGED <<genVars, scoreVars, timeVars, pgVars, camVars>>

\* Try Again of the failure result
resetChallenge ==
    /\ TryAgainOffered
    /\ screen' = "camera"
    /\ captured' = Null
    /\ wm' = Null
    /\ result' = "null"
    /\ cameraKey' = NextCameraKey(cameraKey)
    /\ event' = "resetChallenge"
    /\ last' = NoCall
    /\ UNCHANGED <<attemptCount, isBlocked, scoreFailures>>
    /\ UNCHANGED <<genVars, scoreVars, timeVars, pgVars, camVars>>

\* Start New Challenge missing from the blocked result
NewChallengeOfferedOnSuccessOnly == screen = "result" /\ result = "true"

\* the Play Again button is rendered on the success result, the Start New
\* Challenge button on the blocked result; both call resetChallengeCompletely
NewChallengeOffered == screen = "result" /\ (result = "true" \/ isBlocked)

\* resetChallengeCompletely without setAttemptCount(0) and setIsBlocked(false)
resetChallengeCompletelyKeepsCount ==
    /\ NewChallengeOffered
    /\ screen' = "camera"
    /\ captured' = Null
    /\ wm' = Null
    /\ result' = "null"
    /\ cameraKey' = NextCameraKey(cameraKey)
    /\ event' = "resetChallengeCompletely"
    /\ last' = NoCall
    /\ scoreFailures' = 0
    /\ UNCHANGED <<attemptCount, isBlocked>>
    /\ UNCHANGED <<genVars, scoreVars, timeVars, pgVars, camVars>>

\* Play Again of the success result, Start New Challenge of the blocked result
resetChallengeCompletely ==
    /\ NewChallengeOffered
    /\ screen' = "camera"
    /\ captured' = Null
    /\ wm' = Null
    /\ result' = "null"
    /\ attemptCount' = 0
    /\ isBlocked' = FALSE
    /\ cameraKey' = NextCameraKey(cameraKey)
    /\ event' = "resetChallengeCompletely"
    /\ last' = NoCall
    /\ scoreFailures' = 0
    /\ UNCHANGED <<genVars, scoreVars, timeVars, pgVars, camVars>>

\* onCaptured of the camera screen; image / region are "" when missing
handleCapture(image, region) ==
    /\ screen = "camera"
    /\ IF image = "" \/ region = ""
       THEN UNCHANGED <<screen, captured, wm, result, cameraKey, attemptCount,
                        isBlocked, last, scoreFailures>>
       ELSE /\ \E w \in createWatermarks(gridRows, gridCols) : wm' = w
            /\ captured' = [image |-> image, region |-> region,
                            gridRows |-> gridRows, gridCols |-> gridCols]
            /\ screen' = "puzzle"
            /\ UNCHANGED <<result, cameraKey, attemptCount, isBlocked, last, scoreFailures>>
    /\ event' = "handleCapture"
    /\ UNCHANGED <<genVars, scoreVars, timeVars, pgVars, camVars>>

\* if (!humanValidation.isHuman) { fail immediately }
GatePassesAlways(humanValidation) == TRUE
GatePasses(humanValidation) == humanValidation.isHuman

\* onValidate of the puzzle screen
validatePuzzle(selectedIndices, timingData) ==
    /\ screen = "puzzle"
    /\ captured # Null
    /\ wm # Null
    /\ LET humanValidation == validateHumanInteraction(timingData)
           correctSet == CorrectSet(wm)
           userSet == selectedIndices
           currentAttempt == CurrentAttempt(attemptCount)
           valid == isValid(userSet, correctSet, currentAttempt)
           newAttemptCount == AttemptCountAfter(FALSE, attemptCount)
       IN  IF isBlocked
           THEN /\ last' = Call("blocked", 0, timingData, humanValidation.isHuman,
                                selectedIndices)
                /\ UNCHANGED <<attemptCount, isBlocked, scoreFailures>>
                /\ result' = "false"
           ELSE IF ~GatePasses(humanValidation)
           THEN /\ last' = Call("gate", 0, timingData, humanValidation.isHuman,
                                selectedIndices)
                /\ UNCHANGED <<attemptCount, isBlocked, scoreFailures>>
                /\ result' = "false"
           ELSE IF wm.targetShape = "" \/ wm.targetColor = ""
           THEN /\ last' = Call("target", 0, timingData, humanValidation.isHuman,
                                selectedIndices)
                /\ UNCHANGED <<attemptCount, isBlocked, scoreFailures>>
                /\ result' = "false"
           ELSE /\ last' = Call("scored", currentAttempt, timingData,
                                humanValidation.isHuman, selectedIndices)
                /\ attemptCount' = AttemptCountAfter(valid, attemptCount)
                /\ isBlocked' = (isBlocked \/ (~valid /\ ShouldBlock(newAttemptCount)))
                /\ result' = IF valid THEN "true" ELSE "false"
                /\ scoreFailures' = IF valid THEN 0 ELSE scoreFailures + 1
    /\ screen' = "result"
    /\ event' = "validatePuzzle"
    /\ UNCHANGED <<captured, wm, cameraKey>>
    /\ UNCHANGED <<genVars, scoreVars, timeVars, pgVars, camVars>>

Next ==
    \/ \E image \in {"", "image"}, region \in {"", "region"} : handleCapture(image, region)
    \/ \E selectedIndices \in SUBSET GridCells, timingData \in SessionTimings :
          validatePuzzle(selectedIndices, timingData)
    \/ resetChallenge
    \/ resetChallengeCompletely

(***************************************************************************)
(* GridSpec: PuzzleGrid                                                    *)
(*                                                                         *)
(* Canvas positions are whole numbers of a unit fine enough for the cells. *)
(* An entry of the click log is kept without its timestamp, and the timing *)
(* record handed to onValidate without puzzleStartTime and validationTime: *)
(* the times are the subject of TimingSpec.                                *)
(***************************************************************************)
\* the component takes at most MaxLog clicks inside the region
MaxLog == 3

\* cx and cy of a click: the canvas, around and inside the regions
CanvasCoords == 0 .. 6

\* the region prop: a square whose side is, or is not, a multiple of the cells
Regions == { [x |-> 1, y |-> 1, size |-> 4], [x |-> 0, y |-> 1, size |-> 3] }

\* a region check that lets everything through
OutsideRegionNever(cx, cy, region) == FALSE

\* cx < x || cx > x + size || cy < y || cy > y + size
OutsideRegion(cx, cy, region) ==
    \/ cx < region.x
    \/ cx > region.x + region.size
    \/ cy < region.y
    \/ cy > region.y + region.size

\* Math.floor((c - origin) / (size / cells))
CellCoord(c, origin, size, cells) == ((c - origin) * cells) \div size

\* idx = row * gridCols + col
CellIndex(cx, cy, region) ==
    LET col == CellCoord(cx, region.x, region.size, gridCols)
        row == CellCoord(cy, region.y, region.size, gridRows)
    IN  row * gridCols + col

\* a toggle that only ever adds
ToggleAddOnly(sel, idx) == sel \cup {idx}

\* next = new Set(selected); next.has(idx) ? next.delete(idx) : next.add(idx)
Toggle(sel, idx) == IF idx \in sel THEN sel \ {idx} ELSE sel \cup {idx}

\* { timestamp, cellIndex: idx, action: next.has(idx) ? 'select' : 'deselect' }
ClickEvent(idx, next) ==
    [cellIndex |-> idx, action |-> IF idx \in next THEN "select" ELSE "deselect"]

\* a Validate button that is never disabled
ValidateEnabledAlways == TRUE

\* disabled={selected.size === 0}
ValidateEnabled == Cardinality(pgSelected) # 0

\* a mount effect that leaves the click log as it finds it
MountLogKept(old) == old

\* clickTimestampsRef.current = [] in the mount effect, whatever was logged before
MountLog(old) == <<>>

GridIdle ==
    /\ pgPc = "idle" /\ pgRegion = Null /\ pgSelected = {} /\ pgLog = <<>>
    /\ pgCall = Null /\ pgStart = Null /\ pgTimes = <<>> /\ pgNow = 0
    /\ pgClick = Null /\ pgAccepted = 0

\* after the mount: useState(new Set()), puzzleStartTimeRef.current =
\* performance.now(), clickTimestampsRef.current = []
GridStart ==
    /\ pgPc = "mounted"
    /\ pgRegion \in Regions
    /\ pgSelected = {}
    /\ pgLog = MountLog(<<>>)
    /\ pgCall = Null
    /\ pgNow = 1
    /\ pgStart = pgNow
    /\ pgTimes = MountLog(<<>>)
    /\ pgClick = Null
    /\ pgAccepted = 0

\* onClick of the canvas, at canvas position (cx, cy)
handleClick(cx, cy) ==
    /\ pgPc = "mounted"
    /\ pgClick' = [cx |-> cx, cy |-> cy]
    /\ IF OutsideRegion(cx, cy, pgRegion)
       THEN UNCHANGED <<pgSelected, pgLog, pgTimes, pgAccepted>>
       ELSE /\ Len(pgLog) < MaxLog
            /\ LET idx  == CellIndex(cx, cy, pgRegion)
                   next == Toggle(pgSelected, idx)
               IN  /\ pgSelected' = next
                   /\ pgLog' = Append(pgLog, ClickEvent(idx, next))
                   /\ pgTimes' = Append(pgTimes, pgNow)
            /\ pgAccepted' = pgAccepted + 1
    /\ UNCHANGED <<pgPc, pgRegion, pgCall, pgStart, pgNow>>
    /\ UNCHANGED <<appVars, genVars, scoreVars, timeVars, camVars>>

\* onClick of the Validate button: onValidate([...selected], timing record);
\* validatePuzzle then leaves the puzzle screen and the component unmounts
onValidate ==
    /\ pgPc = "mounted"
    /\ ValidateEnabled
    /\ pgCall' = [selectedIndices |-> pgSelected, clickTimestamps |-> pgLog]
    /\ pgPc' = "validated"
    /\ UNCHANGED <<pgRegion, pgSelected, pgLog, pgStart, pgTimes, pgNow,
                   pgClick, pgAccepted>>
    /\ UNCHANGED <<appVars, genVars, scoreVars, timeVars, camVars>>

GridNext ==
    \/ \E cx \in CanvasCoords, cy \in CanvasCoords : handleClick(cx, cy)
    \/ onValidate

(***************************************************************************)
(* RetrySpec: one PuzzleGrid per attempt                                   *)
(*                                                                         *)
(* App.jsx renders PuzzleGrid only while screen is "puzzle".  onValidate   *)
(* is validatePuzzle, which always leaves for the result screen, so the    *)
(* component unmounts; the way back leads over the camera screen and       *)
(* handleCapture, and mounts a new instance.  The clock is read in whole   *)
(* attempts: it moves on between the unmount and the next mount.           *)
(***************************************************************************)
\* the puzzle is mounted at most 1 + MaxMounts times
MaxMounts == 2

\* cx and cy of the clicks of an attempt: left of / above the regions, and
\* inside their first and second column / row
RetryCoords == {0, 2, 3}

\* screen === "puzzle" again: a new instance with new state and refs, whose
\* mount effect starts the timing
mountPuzzle ==
    /\ pgPc = "validated"
    /\ pgNow <= MaxMounts
    /\ pgPc' = "mounted"
    /\ pgRegion' \in Regions
    /\ pgSelected' = {}
    /\ pgNow' = pgNow + 1
    /\ pgStart' = pgNow'
    /\ pgLog' = MountLog(pgLog)
    /\ pgTimes' = MountLog(pgTimes)
    /\ pgCall' = Null
    /\ pgClick' = Null
    /\ pgAccepted' = 0
    /\ UNCHANGED <<appVars, genVars, scoreVars, timeVars, camVars>>

RetryNext ==
    \/ \E cx \in RetryCoords, cy \in RetryCoords : handleClick(cx, cy)
    \/ onValidate
    \/ mountPuzzle

(***************************************************************************)
(* CameraSpec: CameraCapture                                               *)
(*                                                                         *)
(* startCamera is an async function: it runs to its first await            *)
(* (getUserMedia) in the mount effect, and each continuation is a step of  *)
(* its own.  The environment settles the two promises, loads the video's   *)
(* metadata, runs the animation frames, clicks the button and unmounts     *)
(* the component.  The square moves on a board of (MaxSquare + 1) squared  *)
(* positions.                                                              *)
(***************************************************************************)
\* squareRef.current.x and .y stay within 0 .. MaxSquare
MaxSquare == 2

SquareCoords == 0 .. MaxSquare

\* Math.max(0, Math.min(vw - sq.size, sq.x))
Clamp(c) == IF c < 0 THEN 0 ELSE IF c > MaxSquare THEN MaxSquare ELSE c

\* sq.vx, sq.vy after the random acceleration and the friction
Velocities == {0 - 1, 0, 1}

\* squareRef.current = { x: 50, y: 50, ... }
SquareStart == [x |-> 1, y |-> 1]

\* a readiness check that lets every video through
VideoReadyAlways(attached, ready) == TRUE

\* !(!video || !video.videoWidth || !video.videoHeight)
VideoReady(attached, ready) == attached /\ ready

\* step closes over the running of the render whose effect called
\* startCamera, the first one: useState(true)
RunningSeenByStep == TRUE

\* ctx.drawImage(video, 0, 0); canvas.toDataURL("image/png")
Frame(src, ready) == IF src /\ ready THEN "frame" ELSE "blank"

CameraIdle ==
    /\ camPc = "idle" /\ camRunning = FALSE /\ camRequest = "none"
    /\ camRef = FALSE /\ camSrc = FALSE /\ camStream = "none"
    /\ camReady = FALSE /\ camAnim = FALSE /\ camScheduled = FALSE
    /\ camSquare = Null /\ camArg = Null /\ camCalls = 0
    /\ camTrace = <<>> /\ camEvent = "none"

\* after the mount effect: startCamera has run up to await getUserMedia
CameraStart ==
    /\ camPc = "mounted"
    /\ camRunning = TRUE
    /\ camRequest = "pending"
    /\ camRef = TRUE
    /\ camSrc = FALSE
    /\ camStream = "none"
    /\ camReady = FALSE
    /\ camAnim = FALSE
    /\ camScheduled = FALSE
    /\ camSquare = SquareStart
    /\ camArg = Null
    /\ camCalls = 0
    /\ camTrace = <<>>
    /\ camEvent = "startCamera"

\* stopCamera, with videoRef.current attached or not: the state it leaves
\* setRunning(false)
RunningAfterStop == FALSE
\* cancelAnimationFrame(animationRef.current); animationRef.current = null
ScheduledAfterStop == IF camAnim THEN FALSE ELSE camScheduled
\* stream.getTracks().forEach(track => track.stop())
StreamAfterStop(attached) == IF attached /\ camSrc THEN "stopped" ELSE camStream
\* videoRef.current.srcObject = null
SrcAfterStop(attached) == IF attached THEN FALSE ELSE camSrc
\* a video without a source has videoWidth 0
ReadyAfterStop(attached) == IF attached /\ camSrc THEN FALSE ELSE camReady

\* the promise of getUserMedia resolves with a stream: srcObject = stream and
\* on to await play(); with videoRef.current null the assignment throws and
\* the catch block runs
getUserMediaResolves ==
    /\ camRequest = "pending"
    /\ camStream' = "live"
    /\ IF camRef
       THEN /\ camSrc' = TRUE
            /\ camRequest' = "playing"
            /\ UNCHANGED camRunning
       ELSE /\ camRequest' = "failed"
            /\ camRunning' = FALSE
            /\ UNCHANGED camSrc
    /\ camEvent' = "getUserMediaResolves"
    /\ UNCHANGED <<camPc, camRef, camReady, camAnim, camScheduled, camSquare,
                   camArg, camCalls, camTrace>>
    /\ UNCHANGED <<appVars, genVars, scoreVars, timeVars, pgVars>>

\* the promise of getUserMedia rejects: catch (e) { setRunning(false) }
getUserMediaRejects ==
    /\ camRequest = "pending"
    /\ camRequest' = "failed"
    /\ camRunning' = FALSE
    /\ camEvent' = "getUserMediaRejects"
    /\ UNCHANGED <<camPc, camRef, camSrc, camStream, camReady, camAnim,
                   camScheduled, camSquare, camArg, camCalls, camTrace>>
    /\ UNCHANGED <<appVars, genVars, scoreVars, timeVars, pgVars>>

\* the video element has the dimensions of its stream
loadedMetadata ==
    /\ camSrc
    /\ camStream = "live"
    /\ ~camReady
    /\ camReady' = TRUE
    /\ camEvent' = "loadedMetadata"
    /\ UNCHANGED <<camPc, camRunning, camRequest, camRef, camSrc, camStream,
                   camAnim, camScheduled, camSquare, camArg, camCalls, camTrace>>
    /\ UNCHANGED <<appVars, genVars, scoreVars, timeVars, pgVars>>

\* the body of step, from a square at sq
step(sq, vx, vy) ==
    /\ camSquare' = [x |-> Clamp(sq.x + vx), y |-> Clamp(sq.y + vy)]
    /\ camAnim' = TRUE
    /\ camScheduled' = TRUE

\* the promise of play() resolves: animateSquare() and its first step; with
\* overlayRef.current null canvas.getContext throws and the catch block runs
playResolves ==
    /\ camRequest = "playing"
    /\ camSrc
    /\ IF camRef
       THEN /\ camRequest' = "done"
            /\ \E vx \in Velocities, vy \in Velocities : step(camSquare, vx, vy)
            /\ UNCHANGED camRunning
       ELSE /\ camRequest' = "failed"
            /\ camRunning' = FALSE
            /\ UNCHANGED <<camSquare, camAnim, camScheduled>>
    /\ camEvent' = "playResolves"
    /\ UNCHANGED <<camPc, camRef, camSrc, camStream, camReady, camArg, camCalls,
                   camTrace>>
    /\ UNCHANGED <<appVars, genVars, scoreVars, timeVars, pgVars>>

\* the promise of play() rejects (the source was taken away, or playback was
\* refused): catch (e) { setRunning(false) }
playRejects ==
    /\ camRequest = "playing"
    /\ camRequest' = "failed"
    /\ camRunning' = FALSE
    /\ camEvent' = "playRejects"
    /\ UNCHANGED <<camPc, camRef, camSrc, camStream, camReady, camAnim,
                   camScheduled, camSquare, camArg, camCalls, camTrace>>
    /\ UNCHANGED <<appVars, genVars, scoreVars, timeVars, pgVars>>

\* the browser runs the callback given to requestAnimationFrame
animationFrame ==
    /\ camScheduled
    /\ IF RunningSeenByStep
       THEN \E vx \in Velocities, vy \in Velocities : step(camSquare, vx, vy)
       ELSE /\ camScheduled' = FALSE
            /\ UNCHANGED <<camSquare, camAnim>>
    /\ camEvent' = "step"
    /\ UNCHANGED <<camPc, camRunning, camRequest, camRef, camSrc, camStream,
                   camReady, camArg, camCalls, camTrace>>
    /\ UNCHANGED <<appVars, genVars, scoreVars, timeVars, pgVars>>

\* onClick of the button
captureFrame ==
    /\ camPc = "mounted"
    /\ camEvent' = "captureFrame"
    /\ IF ~VideoReady(camRef, camReady)
       THEN /\ camTrace' = <<>>
            /\ UNCHANGED <<camRunning, camSrc, camStream, camReady, camAnim,
                           camScheduled, camArg, camCalls>>
       ELSE /\ camTrace' = <<"grab", "stopCamera", "onCaptured">>
            /\ camArg' = [image  |-> Frame(camSrc, camReady),
                          region |-> camSquare]
            /\ camRunning' = RunningAfterStop
            /\ camScheduled' = ScheduledAfterStop
            /\ camAnim' = FALSE
            /\ camStream' = StreamAfterStop(camRef)
            /\ camSrc' = SrcAfterStop(camRef)
            /\ camReady' = ReadyAfterStop(camRef)
            /\ camCalls' = camCalls + 1
    /\ UNCHANGED <<camPc, camRequest, camRef, camSquare>>
    /\ UNCHANGED <<appVars, genVars, scoreVars, timeVars, pgVars>>

\* the component unmounts: React detaches the refs and runs the cleanup of
\* the mount effect, stopCamera, in the order of its version
unmount ==
    /\ camPc = "mounted"
    /\ camPc' = "unmounted"
    /\ \E attached \in BOOLEAN :
          /\ camRunning' = RunningAfterStop
          /\ camScheduled' = ScheduledAfterStop
          /\ camAnim' = FALSE
          /\ camStream' = StreamAfterStop(attached)
          /\ camSrc' = SrcAfterStop(attached)
          /\ camReady' = ReadyAfterStop(attached)
    /\ camRef' = FALSE
    /\ camEvent' = "stopCamera"
    /\ UNCHANGED <<camRequest, camSquare, camArg, camCalls, camTrace>>
    /\ UNCHANGED <<appVars, genVars, scoreVars, timeVars, pgVars>>

CameraNext ==
    \/ getUserMediaResolves
    \/ getUserMediaRejects
    \/ loadedMetadata
    \/ playResolves
    \/ playRejects
    \/ animationFrame
    \/ captureFrame
    \/ unmount

Init == AppInit /\ GenIdle /\ ScoreIdle /\ TimingIdle /\ GridIdle /\ CameraIdle
Spec == Init /\ [][Next]_vars

GenInit == AppIdle /\ GenStart /\ ScoreIdle /\ TimingIdle /\ GridIdle /\ CameraIdle
GenSpec == GenInit /\ [][GenNext]_vars

ScoreInit == AppIdle /\ GenIdle /\ ScoreStart /\ TimingIdle /\ GridIdle /\ CameraIdle
ScoreSpec == ScoreInit /\ [][ScoreNext]_vars

TimingInit == AppIdle /\ GenIdle /\ ScoreIdle /\ TimingStart /\ GridIdle /\ CameraIdle
TimingSpec == TimingInit /\ [][TimingNext]_vars

GridInit == AppIdle /\ GenIdle /\ ScoreIdle /\ TimingIdle /\ GridStart /\ CameraIdle
GridSpec == GridInit /\ [][GridNext]_vars

RetryInit == GridInit
RetrySpec == RetryInit /\ [][RetryNext]_vars

CameraInit ==
    AppIdle /\ GenIdle /\ ScoreIdle /\ TimingIdle /\ GridIdle /\ CameraStart
CameraSpec == CameraInit /\ [][CameraNext]_vars


(***************************************************************************)
(* Properties                                                              *)
(***************************************************************************)
\* |selected \ correct| + |correct \ selected|
Mistakes(selected, correct) ==
    Cardinality(selected \ correct) + Cardinality(correct \ selected)

\* |selected /\ correct| / |of| >= tenths / 10, false when `of` is empty
ShareAtLeast(selected, correct, of, tenths) ==
    /\ Cardinality(of) > 0
    /\ 10 * Cardinality(selected \cap correct) >= tenths * Cardinality(of)

\* the watermarks returned by createWatermarks that match the returned target
GenMatching ==
    { n \in 1..Len(watermarks) : /\ watermarks[n].shape = target.targetShape
                                 /\ watermarks[n].color = target.targetColor }

\* C1: whatever the random draws, the target returned by createWatermarks is
\* the shape and color of at least one returned watermark: the correct-answer
\* set is never empty.
C1_TargetSatisfiable ==
    genPc = "done" => GenMatching # {}

\* a 2x2 puzzle whose two watermarks differ: one matches the target, one does not
C1_Witness ==
    /\ genPc = "done"
    /\ genRows = 2 /\ genCols = 2
    /\ Cardinality(GenMatching) = 1
    /\ Len(watermarks) = 2

\* C2: createWatermarks returns exactly floor(rows*cols/2) watermarks, with
\* pairwise distinct idx, each idx in [0, rows*cols), each shape one of
\* triangle/square/circle and each color one of red/green/blue.
C2_WatermarkCoverage ==
    genPc = "done" =>
        LET total == genRows * genCols
            n == Len(watermarks)
        IN  /\ 2 * n <= total /\ total < 2 * n + 2
            /\ \A a, b \in 1..n : a # b => watermarks[a].idx # watermarks[b].idx
            /\ \A a \in 1..n :
                  /\ watermarks[a].idx >= 0 /\ watermarks[a].idx < total
                  /\ watermarks[a].shape \in {"triangle", "square", "circle"}
                  /\ watermarks[a].color \in {"red", "green", "blue"}

\* a 3-cell grid (odd total, one watermark) whose shuffle moved the last cell first
C2_Witness ==
    /\ genPc = "done"
    /\ genRows * genCols = 3
    /\ Len(watermarks) = 1
    /\ watermarks[1].idx = 2

\* C3: counted from a fresh session, the third score failure (validations that
\* pass the timing gate and fail scoring, whatever retries, captures and gate
\* failures lie between them) leaves blocked = true and attemptNumber = 3; after
\* one or two score failures blocked is still false.
C3_ThreeFailuresBlock ==
    /\ scoreFailures = 3 => (isBlocked /\ attemptCount = 3)
    /\ scoreFailures \in {1, 2} => ~isBlocked
    /\ scoreFailures = 0 => ~isBlocked

\* the blocked result right after the third score failure
C3_Witness ==
    /\ screen = "result"
    /\ last.stage = "scored"
    /\ last.failuresBefore = 2
    /\ scoreFailures = 3
    /\ isBlocked

\* C4: a validation that passes the timing gate and the scoring ends in
\* Result(success) with attemptNumber = 0 and blocked = false, whatever
\* attemptNumber was before it.
C4_SuccessResets ==
    (/\ last.stage # "none"
     /\ last.human
     /\ isValid(last.selected, CorrectSet(wm), last.before + 1))
    => (/\ screen = "result"
        /\ result = "true"
        /\ attemptCount = 0
        /\ ~isBlocked)

\* a success on the third attempt, after two failures
C4_Witness ==
    /\ screen = "result"
    /\ result = "true"
    /\ last.human
    /\ last.before = 2
    /\ attemptCount = 0

\* C5: a validation whose timing record is judged not human yields
\* result = false for every selection, the exactly correct one included; a
\* success is only reached by a validation whose timing record was judged human.
C5_FailFastGate ==
    /\ (last.stage # "none" /\ ~last.human) => (screen = "result" /\ result = "false")
    /\ result = "true" => (last.stage # "none" /\ last.human)

\* the exactly correct selection rejected by the timing gate
C5_Witness ==
    /\ screen = "result"
    /\ last.stage = "gate"
    /\ ~last.human
    /\ last.selected = CorrectSet(wm)
    /\ result = "false"

\* the mistakes tier 1, 2, 3 allows
AllowedAfter(failures) == IF failures = 0 THEN 2 ELSE IF failures = 1 THEN 1 ELSE 0

\* C6: attemptNumber is the number of score failures since the last success or
\* full reset, and a validation that reaches scoring is scored with tier
\* attemptNumber + 1: tier 1 (2 mistakes) first, tier 2 (1 mistake) after one
\* failure, tier 3 (0 mistakes) after two.
C6_TierFollowsFailures ==
    /\ attemptCount = scoreFailures
    /\ last.stage = "scored" =>
          /\ last.tier = last.failuresBefore + 1
          /\ last.tier \in 1..3
          /\ result = "true" =>
                Mistakes(last.selected, CorrectSet(wm)) <= AllowedAfter(last.failuresBefore)

\* one wrong extra cell accepted at tier 2, after one failure
C6_Witness ==
    /\ last.stage = "scored"
    /\ last.failuresBefore = 1
    /\ last.tier = 2
    /\ result = "true"
    /\ Mistakes(last.selected, CorrectSet(wm)) = 1

\* C7 as stated: at tier 1 scoring passes iff mistakes <= 2 and
\* correctSelected/|correct| >= 0.8 and correctSelected/|selected| >= 0.8.
C7_AsStated ==
    (scPc = "done" /\ scCorrect # {}) =>
        (scValid[0] <=> /\ Mistakes(scSelected, scCorrect) <= 2
                        /\ ShareAtLeast(scSelected, scCorrect, scCorrect, 8)
                        /\ ShareAtLeast(scSelected, scCorrect, scSelected, 8))

\* C7 amended: at tier 1, for every selection and every non-empty correct set,
\* scoring passes iff mistakes <= 2 and correctSelected/|correct| >= 0.8; the
\* share of correct cells among the selected ones is not examined.
C7_TierOne ==
    (scPc = "done" /\ scCorrect # {}) =>
        (scValid[0] <=> /\ Mistakes(scSelected, scCorrect) <= 2
                        /\ ShareAtLeast(scSelected, scCorrect, scCorrect, 8))

\* a passing tier-1 selection of which only a third is correct
C7_Witness ==
    /\ scPc = "done"
    /\ scCorrect = {0}
    /\ scSelected = {0, 1, 2}
    /\ scValid[0]

\* C8 as stated: at tier 2 scoring passes iff mistakes <= 1 and both
\* correctSelected/|correct| >= 0.9 and correctSelected/|selected| >= 0.9.
C8_AsStated ==
    (scPc = "done" /\ scCorrect # {}) =>
        (scValid[1] <=> /\ Mistakes(scSelected, scCorrect) <= 1
                        /\ ShareAtLeast(scSelected, scCorrect, scCorrect, 9)
                        /\ ShareAtLeast(scSelected, scCorrect, scSelected, 9))

\* C8 amended: at tier 2, for every selection and every non-empty correct set,
\* scoring passes iff mistakes <= 1 and correctSelected/|correct| >= 0.9.
C8_TierTwo ==
    (scPc = "done" /\ scCorrect # {}) =>
        (scValid[1] <=> /\ Mistakes(scSelected, scCorrect) <= 1
                        /\ ShareAtLeast(scSelected, scCorrect, scCorrect, 9))

\* a passing tier-2 selection of which only half is correct
C8_Witness ==
    /\ scPc = "done"
    /\ scCorrect = {0}
    /\ scSelected = {0, 1}
    /\ scValid[1]

\* C9: on the third attempt scoring passes iff the selection equals the
\* correct set; any other selection fails and, being the third score failure,
\* sets attemptNumber = 3 and blocked = true.
C9_TierThreeExact ==
    (last.stage = "scored" /\ last.failuresBefore = 2) =>
        /\ result = "true" <=> last.selected = CorrectSet(wm)
        /\ result # "true" => (result = "false" /\ attemptCount = 3 /\ isBlocked)

\* the whole correct set plus one wrong cell, rejected on the third attempt
C9_Witness ==
    /\ last.stage = "scored"
    /\ last.failuresBefore = 2
    /\ CorrectSet(wm) \subseteq last.selected
    /\ Cardinality(last.selected \ CorrectSet(wm)) = 1
    /\ result = "false"
    /\ attemptCount = 3
    /\ isBlocked

\* C10: for every pair (selected, correct), passing at tier 3 implies passing
\* at tier 2 and passing at tier 2 implies passing at tier 1; and some
\* selection passes at tier 1 while failing at tier 3.
C10_ToleranceMonotone ==
    /\ scPc = "done" => /\ scValid[2] => scValid[1]
                        /\ scValid[1] => scValid[0]
    /\ \E selected \in SUBSET {0, 1, 2} :
          isValid(selected, {0}, 1) /\ ~isValid(selected, {0}, 3)

\* a selection accepted at tier 1 and rejected at tiers 2 and 3
C10_Witness ==
    /\ scPc = "done"
    /\ scValid[0]
    /\ ~scValid[1]
    /\ ~scValid[2]

\* C11: when the correct set is empty, scoring fails at every tier and for
\* every selection, the empty one included, and the failure is counted like any
\* other score failure: attemptCount goes up by one and the third one blocks.
C11_EmptyCorrectSetFails ==
    (scPc = "done" /\ scCorrect = {}) =>
        \A a \in 0 .. (MAX_ATTEMPTS - 1) :
            /\ ~scValid[a]
            /\ scCount[a] = a + 1
            /\ scBlocked[a] <=> (a + 1 = MAX_ATTEMPTS)

\* the empty selection scored against the empty correct set
C11_Witness ==
    /\ scPc = "done"
    /\ scCorrect = {}
    /\ scSelected = {}
    /\ ~scValid[2]
    /\ scCount[2] = 3
    /\ scBlocked[2]

\* C12: resetChallenge (Try Again) returns the session to the camera screen and
\* clears the captured image, the watermark data and the result, and leaves
\* attemptCount and isBlocked as they were.
C12_RetryKeepsAttempts ==
    [][event' = "resetChallenge" =>
          /\ screen = "result"
          /\ screen' = "camera"
          /\ captured' = Null
          /\ wm' = Null
          /\ result' = "null"
          /\ attemptCount' = attemptCount
          /\ isBlocked' = isBlocked]_vars

\* the camera screen after a retry that follows the second failure
C12_Witness ==
    /\ event = "resetChallenge"
    /\ screen = "camera"
    /\ captured = Null /\ wm = Null /\ result = "null"
    /\ attemptCount = 2
    /\ scoreFailures = 2
    /\ ~isBlocked

\* C13: resetChallengeCompletely, from whatever result state it is called in,
\* returns the session to the initial state: camera screen, attemptCount = 0,
\* isBlocked = false, captured image, watermark data and result cleared.
C13_NewChallengeResets ==
    [][event' = "resetChallengeCompletely" =>
          /\ screen = "result"
          /\ screen' = "camera"
          /\ captured' = Null
          /\ wm' = Null
          /\ result' = "null"
          /\ attemptCount' = 0
          /\ isBlocked' = FALSE]_vars

\* the camera screen after a full reset, with every field at its initial value
C13_Witness ==
    /\ event = "resetChallengeCompletely"
    /\ screen = "camera"
    /\ captured = Null /\ wm = Null /\ result = "null"
    /\ attemptCount = 0
    /\ ~isBlocked
    /\ cameraKey # 0

\* C14: once isBlocked is true it stays true, with attemptCount = 3, until
\* resetChallengeCompletely runs; while blocked, Try Again is not enabled, no
\* capture can be started and no validation can end in a success.
C14_BlockedIsTerminal ==
    /\ [](isBlocked =>
            /\ attemptCount = MAX_ATTEMPTS
            /\ ~ENABLED resetChallenge
            /\ ~ENABLED (\E image \in {"", "image"}, region \in {"", "region"} :
                            handleCapture(image, region))
            /\ ~ENABLED (\E selectedIndices \in SUBSET GridCells,
                            timingData \in SessionTimings :
                               validatePuzzle(selectedIndices, timingData) /\ result' = "true"))
    /\ [][isBlocked => \/ isBlocked' /\ attemptCount' = MAX_ATTEMPTS
                       \/ event' = "resetChallengeCompletely"]_vars

\* the blocked result, whose only exit is the full reset
C14_Witness ==
    /\ isBlocked
    /\ screen = "result"
    /\ result = "false"
    /\ attemptCount = MAX_ATTEMPTS
    /\ ENABLED resetChallengeCompletely
    /\ ~ENABLED resetChallenge

\* C15 as stated: in every result state resetChallengeCompletely is enabled,
\* and resetChallenge (Try Again) is enabled in every result state that is not
\* blocked, the success result included.
C15_AsStated ==
    screen = "result" =>
        /\ ENABLED resetChallengeCompletely
        /\ ~isBlocked => ENABLED resetChallenge

(***************************************************************************)
(* Properties of validateHumanInteraction (TimingSpec)                     *)
(***************************************************************************)
\* the record was validated and is not null
Validated == tmPc = "done" /\ tmData # Null

\* a reason whose text starts with `check` was pushed
HasReason(check) ==
    \E i \in DOMAIN tmResult.reasons : tmResult.reasons[i].check = check

tmClicks == tmData.clickTimestamps
tmTotal  == tmData.validationTime - tmData.puzzleStartTime
\* the time between click i and click i + 1
tmGap(i) == tmClicks[i + 1].timestamp - tmClicks[i].timestamp
tmGapCount == Len(tmClicks) - 1
\* the gaps below 80 ms
tmShortGaps == { i \in 1..tmGapCount : tmGap(i) < Ms(80) }
\* all gaps are the same whole number of milliseconds, at least `least`
EvenlySpaced(least) ==
    \E d \in least..1000 : \A i \in 1..tmGapCount : tmGap(i) = Ms(d)
tmThinking == tmData.validationTime - tmClicks[1].timestamp

\* C16: every record with validationTime - puzzleStartTime < 2000 ms is judged
\* not human with a 'Too fast' reason, whatever its clicks; a record with
\* 2000 ms or more gets no 'Too fast' reason.
C16_TimingFloor ==
    Validated =>
        /\ tmTotal < Ms(2000) => (~tmResult.isHuman /\ HasReason("Too fast"))
        /\ tmTotal >= Ms(2000) => ~HasReason("Too fast")

\* half a millisecond below the floor, with clicks no other check objects to
C16_Witness ==
    /\ Validated
    /\ tmTotal = Ms(2000) - 1
    /\ Len(tmClicks) = 2
    /\ tmResult.reasons = <<[check |-> "Too fast", value |-> tmTotal]>>
    /\ ~tmResult.isHuman

\* C17: every record with at least 2 clicks of which at least one consecutive
\* interval is below 80 ms is judged not human, with a reason that carries the
\* number of such intervals, whatever the other intervals and times are.
C17_FastClicks ==
    (Validated /\ Len(tmClicks) >= 2) =>
        /\ tmShortGaps # {} =>
              /\ ~tmResult.isHuman
              /\ \E i \in DOMAIN tmResult.reasons :
                    tmResult.reasons[i] =
                        [check |-> "Suspicious: click(s) with interval < 80ms",
                         value |-> Cardinality(tmShortGaps)]
        /\ tmShortGaps = {} => ~HasReason("Suspicious: click(s) with interval < 80ms")

\* one interval of 79.5 ms among two long ones, in an otherwise unhurried record
C17_Witness ==
    /\ Validated
    /\ Len(tmClicks) = 4
    /\ Cardinality(tmShortGaps) = 1
    /\ tmGap(1) = Ms(80) - 1
    /\ tmTotal >= Ms(2000)
    /\ tmThinking >= Ms(500)
    /\ tmResult.reasons = <<[check |-> "Suspicious: click(s) with interval < 80ms",
                             value |-> 1]>>
    /\ ~tmResult.isHuman

C19_FewIntervals ==
    (Validated /\ Len(tmClicks) <= 3) =>
        /\ ~HasReason("Suspicious click pattern: Too consistent intervals")
        /\ ~HasReason("Suspicious: All click intervals are identical")
        /\ (/\ Len(tmClicks) >= 2
            /\ EvenlySpaced(0)
            /\ tmTotal >= Ms(2000)
            /\ tmShortGaps = {}
            /\ tmThinking >= Ms(500)) => tmResult.isHuman

\* three clicks 250 ms apart, judged human
C19_Witness ==
    /\ Validated
    /\ Len(tmClicks) = 3
    /\ tmGap(1) = Ms(250) /\ tmGap(2) = Ms(250)
    /\ tmResult.isHuman
    /\ tmResult.reasons = <<>>

\* C20: a record with at least one click and validationTime -
\* clicks[0].timestamp < 500 ms is judged not human with a 'Too fast validation'
\* reason; the reason depends on the first click only and is never given to a
\* record without clicks.
C20_ThinkingFloor ==
    Validated =>
        /\ (Len(tmClicks) >= 1 /\ tmThinking < Ms(500)) =>
              (~tmResult.isHuman /\ HasReason("Too fast validation"))
        /\ (Len(tmClicks) >= 1 /\ tmThinking >= Ms(500)) =>
              ~HasReason("Too fast validation")
        /\ Len(tmClicks) = 0 => ~HasReason("Too fast validation")

\* a first click 500 ms and a last click 100 ms before the validation: accepted
C20_Witness ==
    /\ Validated
    /\ Len(tmClicks) = 2
    /\ tmThinking = Ms(500)
    /\ tmData.validationTime - tmClicks[2].timestamp = Ms(100)
    /\ tmResult.isHuman

\* the checks of validateHumanInteraction, decided on the record itself
FloorFired    == tmTotal < Ms(2000)
CeilingFired  == tmTotal > Ms(300000)
FastFired     == Len(tmClicks) >= 2 /\ tmShortGaps # {}
\* standard deviation / mean below 0.15 over at least 3 intervals: with mean m
\* and n intervals, sum of (gap - m)^2 < n * (0.15 * m)^2, that is
\* 400 * sum of (n * gap - S)^2 < 9 * n * S^2 for the sum S of the gaps
ConsistentFired ==
    /\ tmGapCount >= 3
    /\ LET n == tmGapCount
           S == SumSeq([i \in 1..n |-> tmGap(i)])
           dev2 == SumSeq([i \in 1..n |-> (n * tmGap(i) - S) * (n * tmGap(i) - S)])
       IN  S > 0 /\ dev2 <= (9 * n * S * S - 1) \div 400
IdenticalFired ==
    /\ tmGapCount >= 3
    /\ \A i \in 1..tmGapCount : Round(tmGap(i)) = Round(tmGap(1))
ZeroClicksFired == Len(tmClicks) = 0
ThinkingFired == Len(tmClicks) >= 1 /\ tmThinking < Ms(500)

\* the reasons of the checks that fired, in the order of the checks
ExpectedChecks ==
    LET pick(seq, fired, check) == IF fired THEN Append(seq, check) ELSE seq
        c1 == pick(<<>>, FloorFired, "Too fast")
        c2 == pick(c1, CeilingFired, "Warning: Very long completion time")
        c3 == pick(c2, ConsistentFired, "Suspicious click pattern: Too consistent intervals")
        c4 == pick(c3, FastFired, "Suspicious: click(s) with interval < 80ms")
        c5 == pick(c4, IdenticalFired, "Suspicious: All click intervals are identical")
        c6 == pick(c5, ZeroClicksFired, "Warning: No click interactions recorded")
    IN  pick(c6, ThinkingFired, "Too fast validation")

FailingFired ==
    FloorFired \/ ConsistentFired \/ FastFired \/ IdenticalFired \/ ThinkingFired

\* C21: a record whose only triggered checks are the 300 s ceiling and / or the
\* zero-clicks warning is judged human, with a non-empty reasons list, and
\* passes the gate of validatePuzzle.
C21_AdvisoryOnly ==
    (Validated /\ ~FailingFired /\ (CeilingFired \/ ZeroClicksFired)) =>
        /\ tmResult.isHuman
        /\ tmResult.reasons # <<>>
        /\ \A i \in DOMAIN tmResult.reasons :
              tmResult.reasons[i].check \in { "Warning: Very long completion time",
                                              "Warning: No click interactions recorded" }
        /\ GatePasses(tmResult)

\* no click in more than 300 s: both warnings, judged human
C21_Witness ==
    /\ Validated
    /\ tmTotal = Ms(300000) + 1
    /\ Len(tmClicks) = 0
    /\ Len(tmResult.reasons) = 2
    /\ tmResult.isHuman
    /\ GatePasses(tmResult)

\* C22: validatePuzzle called without a timing record ends on the result
\* screen with result = false, for every selection, and
\* validateHumanInteraction(null) is isHuman = false with the single reason
\* 'No timing data provided'.
C22_MissingTimingFailsClosed ==
    /\ (last.stage # "none" /\ ~last.timed) =>
          /\ screen = "result"
          /\ result = "false"
          /\ last.stage = "gate"
          /\ ~last.human
          /\ attemptCount = last.before
    /\ validateHumanInteraction(Null) =
          [isHuman |-> FALSE,
           reasons |-> <<[check |-> "No timing data provided", value |-> 0]>>]

\* the exactly correct selection, validated without a timing record
C22_Witness ==
    /\ screen = "result"
    /\ last.stage = "gate"
    /\ ~last.timed
    /\ last.selected = CorrectSet(wm)
    /\ result = "false"

\* C23: for a present record the reasons list holds exactly one entry per check
\* that fired, in the order of the checks, and isHuman is true exactly when
\* none of floor, too-consistent, too-fast, identical and thinking-time fired.
C23_ReasonsExhaustive ==
    Validated =>
        /\ Len(tmResult.reasons) = Len(ExpectedChecks)
        /\ \A i \in DOMAIN tmResult.reasons : tmResult.reasons[i].check = ExpectedChecks[i]
        /\ tmResult.isHuman <=> ~FailingFired

\* four clicks 80 ms apart, the first less than 500 ms before a validation
\* that comes before 2 s: floor, too-consistent, identical and thinking-time
\* are all reported
C23_Witness ==
    /\ Validated
    /\ FloorFired /\ ConsistentFired /\ IdenticalFired /\ ThinkingFired
    /\ Len(tmResult.reasons) = 4
    /\ ~tmResult.isHuman

\* C24 as stated: isHuman = false only when at least two of the failing checks
\* fired on the record.
C24_AsStated ==
    (Validated /\ ~tmResult.isHuman) =>
        Cardinality({ i \in DOMAIN tmResult.reasons :
                         tmResult.reasons[i].check
                            \notin { "Warning: Very long completion time",
                                     "Warning: No click interactions recorded" } }) >= 2

\* C25 as stated: a capture event without image or without region ends on the
\* result screen with result = false.
C25_AsStated ==
    (event = "handleCapture" /\ captured = Null) =>
        (screen = "result" /\ result = "false")

\* C26 as stated: on the failure result that is not blocked, the attempt number
\* shown is the number of the attempt that has just failed (1 after the first
\* score failure of a fresh session).
C26_AsStated ==
    (screen = "result" /\ result = "false" /\ ~isBlocked /\ last.stage = "scored") =>
        AttemptShown = last.failuresBefore + 1

(***************************************************************************)
(* Properties of PuzzleGrid (GridSpec)                                     *)
(***************************************************************************)
\* the position lies outside the square [x, x + size] x [y, y + size]
OutsideSquare(click, region) ==
    ~(/\ region.x <= click.cx /\ click.cx <= region.x + region.size
      /\ region.y <= click.cy /\ click.cy <= region.y + region.size)

\* the number of entries of the click log for the cell
TimesClicked(cell) == Cardinality({ i \in DOMAIN pgLog : pgLog[i].cellIndex = cell })

\* C27: each accepted click appends exactly one event to the click log and
\* toggles exactly the cell of that event in the selection, every other cell
\* staying as it was; the action of the event is 'select' iff the cell is in the
\* selection after the click. So the selection is always the set of cells with
\* an odd number of events and the log is as long as the number of accepted
\* clicks.
C27_ClickTogglesAndLogs ==
    /\ [](/\ pgSelected = { pgLog[i].cellIndex : i \in { k \in DOMAIN pgLog :
                                TimesClicked(pgLog[k].cellIndex) % 2 = 1 } }
          /\ Len(pgLog) = pgAccepted)
    /\ [][pgAccepted' # pgAccepted =>
            /\ pgAccepted' = pgAccepted + 1
            /\ Len(pgLog') = Len(pgLog) + 1
            /\ SubSeq(pgLog', 1, Len(pgLog)) = pgLog
            /\ LET ev == pgLog'[Len(pgLog')]
               IN  /\ (ev.cellIndex \in pgSelected') <=> (ev.cellIndex \notin pgSelected)
                   /\ pgSelected' \ {ev.cellIndex} = pgSelected \ {ev.cellIndex}
                   /\ ev.action \in {"select", "deselect"}
                   /\ ev.action = "select" <=> ev.cellIndex \in pgSelected']_vars

\* cell 0 selected, another cell selected, cell 0 deselected again
C27_Witness ==
    /\ Len(pgLog) = 3
    /\ pgLog[1] = [cellIndex |-> 0, action |-> "select"]
    /\ pgLog[2].action = "select"
    /\ pgLog[3] = [cellIndex |-> 0, action |-> "deselect"]
    /\ pgSelected = {pgLog[2].cellIndex}
    /\ pgAccepted = 3

\* C28: a click whose canvas position lies outside the grid region changes
\* neither the selection nor the click log, and so leaves the Validate button
\* as it was.
C28_OutsideClickIgnored ==
    [][(pgPc = "mounted" /\ pgClick' # Null /\ OutsideSquare(pgClick', pgRegion)) =>
          /\ pgSelected' = pgSelected
          /\ pgLog' = pgLog
          /\ ValidateEnabled' <=> ValidateEnabled]_vars

\* a click left of the region after one inside it: the selection is kept
C28_Witness ==
    /\ pgPc = "mounted"
    /\ pgClick # Null
    /\ pgClick.cx < pgRegion.x
    /\ pgSelected = {0}
    /\ Len(pgLog) = 1

\* C29 as stated: every cell index handleClick puts into the selection or the
\* click log is a cell of the grid, 0 <= idx < rows * cols, for every position
\* the region check accepts, the right and bottom edges included.
C29_AsStated ==
    /\ pgSelected \subseteq GridCells
    /\ \A i \in DOMAIN pgLog : pgLog[i].cellIndex \in GridCells

\* C30: onValidate is never called with an empty selection, and the timing
\* record it is called with holds at least one click event.
C30_ValidateNeedsSelection ==
    /\ pgCall # Null =>
          /\ pgCall.selectedIndices # {}
          /\ Len(pgCall.clickTimestamps) >= 1
    /\ (pgPc = "mounted" /\ pgSelected = {}) => ~ENABLED onValidate

\* a validation after select, select, deselect: one cell selected, three events
C30_Witness ==
    /\ pgPc = "validated"
    /\ pgCall # Null
    /\ Cardinality(pgCall.selectedIndices) = 1
    /\ Len(pgCall.clickTimestamps) = 3

(***************************************************************************)
(* Further properties of the timing checks, the session, the scoring and   *)
(* the generator                                                           *)
(***************************************************************************)
\* C33 as stated: on every record on which the identical-intervals check
\* fires, the too-consistent check fires as well, also when all intervals are
\* 0 ms.
C33_AsStated ==
    (Validated /\ HasReason("Suspicious: All click intervals are identical")) =>
        HasReason("Suspicious click pattern: Too consistent intervals")

\* C34: a validation that fails before scoring (not judged human, or without a
\* timing record) ends on the result screen with result = false and leaves
\* attemptCount, isBlocked and the number of score failures as they were.
C34_GateFailureNotCounted ==
    (last.stage # "none" /\ ~last.human) =>
        /\ last.stage = "gate"
        /\ last.tier = 0
        /\ screen = "result"
        /\ result = "false"
        /\ attemptCount = last.before
        /\ scoreFailures = last.failuresBefore
        /\ ~isBlocked

\* a gate failure after two score failures: still two, not blocked
C34_Witness ==
    /\ last.stage = "gate"
    /\ last.timed
    /\ ~last.human
    /\ last.before = 2
    /\ attemptCount = 2
    /\ result = "false"
    /\ ~isBlocked

\* C35: attemptCount is always in 0..3 and isBlocked holds exactly when it is
\* 3; attemptCount returns to 0 only through a scoring success or
\* resetChallengeCompletely; the tier a validation is scored with is 1, 2 or 3.
C35_AttemptRange ==
    /\ [](/\ attemptCount \in 0 .. MAX_ATTEMPTS
          /\ isBlocked <=> attemptCount = MAX_ATTEMPTS
          /\ last.stage = "scored" => last.tier \in DOMAIN TOLERANCE_CONFIG)
    /\ [][(attemptCount # 0 /\ attemptCount' = 0) =>
             \/ event' = "resetChallengeCompletely"
             \/ event' = "validatePuzzle" /\ result' = "true"]_vars

\* a success scored with tier 3 brings attemptCount from 2 back to 0
C35_Witness ==
    /\ event = "validatePuzzle"
    /\ last.stage = "scored"
    /\ last.tier = 3
    /\ last.before = 2
    /\ result = "true"
    /\ attemptCount = 0
    /\ ~isBlocked

\* C36: on the camera screen captured, wm and result are cleared; on the
\* puzzle screen captured and wm are set, result is unset and isBlocked is
\* false; on the result screen result is true or false; isBlocked implies the
\* result screen with result = false; and wm and captured, once set, change
\* only by being cleared in a reset.
C36_ScreenDataConsistent ==
    /\ [](/\ screen \in {"camera", "puzzle", "result"}
          /\ screen = "camera" => (captured = Null /\ wm = Null /\ result = "null")
          /\ screen = "puzzle" =>
                (captured # Null /\ wm # Null /\ result = "null" /\ ~isBlocked)
          /\ screen = "result" => result \in {"true", "false"}
          /\ isBlocked => (screen = "result" /\ result = "false"))
    /\ [][((wm # Null /\ wm' # wm) \/ (captured # Null /\ captured' # captured)) =>
             /\ wm' = Null
             /\ captured' = Null
             /\ event' \in {"resetChallenge", "resetChallengeCompletely"}]_vars

\* the result of a validation: the puzzle it was made on is still there
C36_Witness ==
    /\ screen = "result"
    /\ result = "false"
    /\ isBlocked
    /\ captured # Null
    /\ wm # Null
    /\ Len(wm.watermarks) = 2

\* C37: with a correct set of 1 to 8 cells, scoring at tier 2 passes exactly
\* the selections that contain every correct cell and at most one other cell.
C37_TierTwoNeedsAllCorrect ==
    (scPc = "done" /\ Cardinality(scCorrect) \in 1..8) =>
        (scValid[1] <=> /\ scCorrect \subseteq scSelected
                        /\ Cardinality(scSelected \ scCorrect) <= 1)

\* 7 of 8 correct cells and nothing else: one mistake, rejected at tier 2
C37_Witness ==
    /\ scPc = "done"
    /\ Cardinality(scCorrect) = 8
    /\ scSelected \subseteq scCorrect
    /\ Cardinality(scSelected) = 7
    /\ ~scValid[1]

\* the steps a session is away from the camera screen of a fresh lineage
Distance ==
    IF screen = "camera" /\ attemptCount = 0 /\ ~isBlocked THEN 0
    ELSE IF screen = "result" /\ (result = "true" \/ isBlocked) THEN 1
    ELSE IF screen = "puzzle" THEN 2
    ELSE IF screen = "camera" THEN 3
    ELSE 4

\* C38: in every reachable state some transition is enabled, and from every
\* reachable state the camera screen with attemptCount = 0 and isBlocked = false
\* can be reached: some enabled transition always leads one step closer to it.
C38_NeverStuck ==
    /\ ENABLED Next
    /\ Distance # 0 => ENABLED (Next /\ Distance' < Distance)

\* the blocked result, left by the full reset
C38_Witness ==
    /\ isBlocked
    /\ Distance = 1
    /\ ENABLED (Next /\ screen' = "camera" /\ attemptCount' = 0 /\ ~isBlocked')

\* the subsets of the cells taken by the first half of an array the loop can end with
Placements(total) ==
    { { ind[k] : k \in 1..Half(total) } : ind \in FisherYates(InitialIndices(total), total - 1) }

\* C40: the index array is a permutation of 0 .. rows*cols-1 after every swap,
\* and every subset of floor(rows*cols/2) cells is the placement of some
\* sequence of draws.
C40_ShufflePermutes ==
    genPc # "idle" =>
        LET total == genRows * genCols
        IN  /\ Len(indices) = total
            /\ { indices[k] : k \in 1..total } = 0 .. (total - 1)
            /\ (genPc = "shuffle" /\ genI = total - 1) =>
                  Placements(total) =
                      { S \in SUBSET (0 .. (total - 1)) : Cardinality(S) = Half(total) }

\* the loop of a 4-cell grid ended with the last two cells in front
C40_Witness ==
    /\ genPc = "shuffle"
    /\ genI = 0
    /\ genRows * genCols = 4
    /\ { indices[1], indices[2] } = {2, 3}

\* the cells a click log leaves selected: those whose last entry is a select
SelectedBy(log) ==
    { c \in { log[i].cellIndex : i \in 1 .. Len(log) } :
        LET lastAt == CHOOSE i \in 1 .. Len(log) :
                          /\ log[i].cellIndex = c
                          /\ \A j \in (i + 1) .. Len(log) : log[j].cellIndex # c
        IN  log[lastAt].action = "select" }

\* C31: every mount of the puzzle, the first one and each one after a retry
\* or a full reset, starts with an empty click log, an empty selection and a
\* puzzleStartTime taken anew; every entry of the log was pushed at or after
\* the current start, the selection is what the current log leaves selected,
\* and the selection and record handed to onValidate are those of the
\* current attempt.
C31_AttemptStartsFresh ==
    /\ [](pgPc \in {"mounted", "validated"} =>
            /\ Len(pgTimes) = Len(pgLog)
            /\ Len(pgLog) = pgAccepted
            /\ \A i \in 1 .. Len(pgTimes) : pgTimes[i] >= pgStart
            /\ pgSelected = SelectedBy(pgLog)
            /\ pgCall # Null =>
                  /\ pgCall.clickTimestamps = pgLog
                  /\ pgCall.selectedIndices = pgSelected)
    /\ [][(pgPc = "validated" /\ pgPc' = "mounted") =>
            /\ pgLog' = <<>>
            /\ pgTimes' = <<>>
            /\ pgSelected' = {}
            /\ pgStart' = pgNow'
            /\ pgStart' > pgStart
            /\ \A i \in 1 .. Len(pgTimes) : pgTimes[i] < pgStart']_vars

\* a later attempt, validated after two clicks of its own
C31_Witness ==
    /\ pgNow = 1 + 1
    /\ pgPc = "validated"
    /\ pgCall # Null
    /\ Len(pgCall.clickTimestamps) = 1 + 1
    /\ Cardinality(pgCall.selectedIndices) = 1 + 1

\* C32: captureFrame on a video that is not ready stops nothing and does not
\* call onCaptured; on a ready video it grabs the frame and the square, then
\* stops the camera, then calls onCaptured once, with the frame and the
\* square as they were before the camera stopped.
C32_CaptureWhenReady ==
    [][camEvent' = "captureFrame" =>
          IF camRef /\ camReady
          THEN /\ camTrace' = <<"grab", "stopCamera", "onCaptured">>
               /\ camCalls' = camCalls + 1
               /\ camArg' = [image |-> "frame", region |-> camSquare]
               /\ camStream' = "stopped"
               /\ ~camSrc'
               /\ ~camScheduled'
          ELSE /\ camCalls' = camCalls
               /\ camArg' = camArg
               /\ camStream' = camStream
               /\ camSrc' = camSrc
               /\ camScheduled' = camScheduled
               /\ camAnim' = camAnim
               /\ camRunning' = camRunning]_vars

\* a capture of a running camera whose square had moved
C32_Witness ==
    /\ camEvent = "captureFrame"
    /\ camTrace = <<"grab", "stopCamera", "onCaptured">>
    /\ camCalls = 1
    /\ camArg # Null
    /\ camArg.region # SquareStart
    /\ camStream = "stopped"
    /\ camRequest = "done"

\* C39, as stated: when the component was unmounted while getUserMedia was
\* pending and the request then resolves, no track is left running and no
\* animation frame is left scheduled.
C39_AsStated ==
    [][(camPc = "unmounted" /\ camRequest = "pending"
            /\ camEvent' = "getUserMediaResolves") =>
          /\ camStream' # "live"
          /\ ~camScheduled']_vars
====
